---- MODULE Spec2Model ----
(***************************************************************************)
(* Model of src/app.py, the Streamlit "Market Regime Analyzer".            *)
(*                                                                         *)
(* One execution of the script (a "render") is a sequence of steps, one    *)
(* per numbered stage of the try block.  The state that outlives a render  *)
(* is the st.cache_data store of get_data.  The collaborators are modelled *)
(* by their documented contracts:                                          *)
(*   - st.cache_data memoizes a function's return value by its arguments;  *)
(*     an exception is not memoized; no ttl / max_entries is given;        *)
(*   - st.* element calls emit the element when they are called; a later   *)
(*     exception does not take an emitted element back;                    *)
(*   - yf.download either returns a (possibly empty) frame or raises;      *)
(*   - gs_quant volatility(x, Window(w, r)) computes the rolling statistic *)
(*     on the index of x and then applies the ramp-up: it returns the      *)
(*     empty series when w > len(x) and otherwise drops the first r        *)
(*     points (helper.apply_ramp: x[window.r:]).                           *)
(* Real numbers are fixed-point integers; the numerical value of the       *)
(* rolling statistic is abstracted to an integer dispersion measure (range *)
(* of the returns in the window), its index handling is kept exactly.      *)
(***************************************************************************)
EXTENDS Integers, Sequences, FiniteSets, TLC

\* ---------------------------------------------------------------- bounds
NumTickers == 2
NumPeriods == 2
MaxRenders == 2
MaxExtra == 1
BasePrice == 10000

\* ------------------------------------------------------ program constants
WindowSize == 22
RampUp == 0
TailRows == 30
MinThreshold == 10
MaxThreshold == 50
DefaultThreshold == 20
PctFactor == 100

DefaultTicker == "SPY"
DefaultPeriod == "2y"

TickerNames == <<"SPY", "ZZZINVALID", "AAPL", "TSLA">>
PeriodNames == <<"2y", "1y", "5y", "10y">>

Tickers == {TickerNames[i] : i \in 1..NumTickers}
Periods == {PeriodNames[i] : i \in 1..NumPeriods}
Keys == Tickers \X Periods

\* thresholds the slider is moved to in the full render model
Thresholds == {MinThreshold, DefaultThreshold, MaxThreshold}
\* every position of the slider
AllThresholds == MinThreshold..MaxThreshold

\* fixed point: a volatility value e stands for e / FixedScale
FixedScale == PctFactor * PctFactor
NaN == 0 - 1

HIGH == "HIGH VOLATILITY (Defensive)"
STABLE == "NORMAL VOLATILITY (Stable)"

\* the elements of a successful render that shows badge b
FullOutputs(b) == {"price_metric", "vol_metric", b, "chart", "table"}
Badges == {"badge_high", "badge_stable"}

\* ------------------------------------------------- the provider's answers
\* trading days: five per week
Date(i) == i + 2 * ((i - 1) \div 5)

MakeSeries(n, jump) ==
  [i \in 1..n |-> [date |-> Date(i),
                   price |-> IF i = n THEN BasePrice + jump ELSE BasePrice]]

SeriesLens == {0, WindowSize - 1, WindowSize, TailRows + MaxExtra}
Jumps == {DefaultThreshold * PctFactor, DefaultThreshold * PctFactor + 1}
ProviderSeries ==
  {MakeSeries(n, DefaultThreshold * PctFactor) : n \in SeriesLens}
    \cup {MakeSeries(WindowSize, j) : j \in Jumps}

Dates(x) == [i \in 1..Len(x) |-> x[i].date]

\* ------------------------------------------------------- gs_quant helpers
\* returns labelled with the date of the earlier of the two prices
returns_shifted(x) ==
  [i \in 1..Len(x) |-> [date |-> x[IF i = 1 THEN 1 ELSE i - 1].date,
                        value |-> IF i = 1 THEN NaN
                                  ELSE x[i].price - x[i - 1].price]]

\* returns(x): first point has no predecessor
returns(x) ==
  [i \in 1..Len(x) |-> [date |-> x[i].date,
                        value |-> IF i = 1 THEN NaN
                                  ELSE x[i].price - x[i - 1].price]]

SetMax(S) == CHOOSE m \in S : \A y \in S : y <= m
SetMin(S) == CHOOSE m \in S : \A y \in S : m <= y

\* x.rolling(w, 0).std(): trailing window of at most w points, NaN with
\* fewer than two valid observations
rolling_std(x, w) ==
  [i \in 1..Len(x) |->
     LET lo == IF i - w + 1 > 1 THEN i - w + 1 ELSE 1
         valid == {j \in lo..i : x[j].value # NaN}
         vals == {x[j].value : j \in valid}
     IN [date |-> x[i].date,
         value |-> IF Cardinality(valid) < 2 THEN NaN
                   ELSE SetMax(vals) - SetMin(vals)]]

\* a ramp that does not compare the window with the length of the series
apply_ramp_unchecked(x, w, r) == SubSeq(x, r + 1, Len(x))

apply_ramp(x, w, r) ==
  IF w > Len(x) THEN <<>> ELSE SubSeq(x, r + 1, Len(x))

\* a rolling statistic that keeps full windows only
volatility_full_windows(x, w, r) ==
  IF Len(x) < w THEN <<>>
  ELSE SubSeq(rolling_std(returns(x), w), w, Len(x))

volatility(x, w, r) ==
  IF Len(x) < 1 THEN <<>>
  ELSE apply_ramp(apply_ramp(rolling_std(returns(x), w), w, 0), w, r)

\* -------------------------------------------------------- pure functions
\* current_vol > vol_threshold (a comparison with NaN is false)
ExceedsAtOrAbove(v, t) == v # NaN /\ v >= t * FixedScale
Exceeds(v, t) == v # NaN /\ v > t * FixedScale

ErrorMessageLiteral(t) ==
  <<"Error: Could not fetch data for ticker '", "{ticker}", "'. Please check the symbol.">>
ErrorMessage(t) ==
  <<"Error: Could not fetch data for ticker '", t, "'. Please check the symbol.">>

tail(x, k) ==
  IF Len(x) <= k THEN x ELSE SubSeq(x, Len(x) - k + 1, Len(x))

\* ------------------------------------------------------------------ state
VARIABLES
  cache,          \* st.cache_data store of get_data: key -> series
  netLog,         \* history: the series each key's network requests returned
  failed,         \* history: keys for which get_data raised
  seen,           \* history: the classifications made so far
  renders,        \* number of script runs started
  ticker, period, vol_threshold,   \* sidebar inputs of the current run
  pc,             \* position of the current run
  requests,       \* network requests issued by the current run
  raised,         \* stage whose exception the current run caught, or "none"
  prices, vol_series, current_price, current_vol, status,
  outputs,        \* elements the current run has emitted
  chart, table,   \* content of the chart and of the data view
  errors          \* st.error messages of the except handler

vars == <<cache, netLog, failed, seen, renders, ticker, period, vol_threshold,
          pc, requests, raised, prices, vol_series, current_price,
          current_vol, status, outputs, chart, table, errors>>

key == <<ticker, period>>

NoChart == [priceDates |-> <<>>, volDates |-> <<>>, threshold |-> 0]

Locals == <<prices, vol_series, current_price, current_vol, status>>
Shown == <<outputs, chart, table, errors>>
Inputs == <<renders, ticker, period, vol_threshold>>
History == <<netLog, failed, seen>>

Init ==
  /\ cache = <<>>
  /\ netLog = [k \in Keys |-> <<>>]
  /\ failed = {}
  /\ seen = {}
  /\ renders = 1
  /\ ticker = DefaultTicker
  /\ period = DefaultPeriod
  /\ vol_threshold = DefaultThreshold
  /\ pc = "fetch"
  /\ requests = 0
  /\ raised = "none"
  /\ prices = <<>>
  /\ vol_series = <<>>
  /\ current_price = 0
  /\ current_vol = 0
  /\ status = ""
  /\ outputs = {}
  /\ chart = NoChart
  /\ table = <<>>
  /\ errors = <<>>

\* a widget change reruns the script from the top
Rerun ==
  /\ pc = "done"
  /\ renders < MaxRenders
  /\ renders' = renders + 1
  /\ \E tk \in Tickers, pd \in Periods, th \in Thresholds :
       /\ ticker' = tk
       /\ period' = pd
       /\ vol_threshold' = th
  /\ pc' = "fetch"
  /\ requests' = 0
  /\ raised' = "none"
  /\ prices' = <<>>
  /\ vol_series' = <<>>
  /\ current_price' = 0
  /\ current_vol' = 0
  /\ status' = ""
  /\ outputs' = {}
  /\ chart' = NoChart
  /\ table' = <<>>
  /\ errors' = <<>>
  /\ UNCHANGED <<cache, History>>

Raise(stage) ==
  /\ raised' = stage
  /\ pc' = "except"

\* ---- get_data under st.cache_data
CacheHit ==
  /\ prices' = cache[key]
  /\ pc' = "vol"
  /\ UNCHANGED <<cache, History, requests, raised>>

DownloadOk(s) ==
  /\ requests' = requests + 1
  /\ netLog' = [netLog EXCEPT ![key] = Append(@, s)]
  /\ cache' = (key :> s) @@ cache
  /\ prices' = s
  /\ pc' = "vol"
  /\ UNCHANGED <<failed, seen, raised>>

DownloadRaises ==
  /\ requests' = requests + 1
  /\ failed' = failed \cup {key}
  /\ Raise("fetch")
  /\ UNCHANGED <<cache, netLog, seen, prices>>

\* a fetch that never consults the store
get_data_uncached ==
  \/ \E s \in ProviderSeries : DownloadOk(s)
  \/ DownloadRaises

\* a store that keeps one entry
get_data_single_entry ==
  IF key \in DOMAIN cache
  THEN CacheHit
  ELSE \/ \E s \in ProviderSeries :
            /\ requests' = requests + 1
            /\ netLog' = [netLog EXCEPT ![key] = Append(@, s)]
            /\ cache' = (key :> s)
            /\ prices' = s
            /\ pc' = "vol"
            /\ UNCHANGED <<failed, seen, raised>>
       \/ DownloadRaises

\* a store that memoizes a failed download as an empty series
get_data_caches_failure ==
  IF key \in DOMAIN cache
  THEN CacheHit
  ELSE \/ \E s \in ProviderSeries : DownloadOk(s)
       \/ /\ requests' = requests + 1
          /\ failed' = failed \cup {key}
          /\ cache' = (key :> <<>>) @@ cache
          /\ Raise("fetch")
          /\ UNCHANGED <<netLog, seen, prices>>

get_data ==
  IF key \in DOMAIN cache
  THEN CacheHit
  ELSE \/ \E s \in ProviderSeries : DownloadOk(s)
       \/ DownloadRaises

\* 1. Fetch Data
FetchData ==
  /\ pc = "fetch"
  /\ get_data
  /\ UNCHANGED <<Inputs, vol_series, current_price, current_vol, status, Shown>>

\* 2. volatility(prices, Window(22, 0)); on a non-empty series shorter than
\* the window the library either returns the empty series or raises while
\* annualizing it, depending on its version
ComputeVolatility ==
  /\ pc = "vol"
  /\ \/ /\ vol_series' = volatility(prices, WindowSize, RampUp)
        /\ pc' = "latest"
        /\ UNCHANGED raised
     \/ /\ Len(prices) >= 1
        /\ Len(prices) < WindowSize
        /\ Raise("vol")
        /\ UNCHANGED vol_series
  /\ UNCHANGED <<cache, History, Inputs, requests, prices, current_price,
                 current_vol, status, Shown>>

\* prices.iloc[-1], vol_series.iloc[-1] * 100
LatestValues ==
  /\ pc = "latest"
  /\ IF Len(prices) = 0 \/ Len(vol_series) = 0
     THEN /\ Raise("latest")
          /\ UNCHANGED <<current_price, current_vol>>
     ELSE /\ current_price' = prices[Len(prices)].price
          /\ current_vol' = IF vol_series[Len(vol_series)].value = NaN THEN NaN
                            ELSE vol_series[Len(vol_series)].value * PctFactor
          /\ pc' = "metrics"
          /\ UNCHANGED raised
  /\ UNCHANGED <<cache, History, Inputs, requests, prices, vol_series, status,
                 Shown>>

\* 3. Display Key Metrics
DisplayMetrics ==
  /\ pc = "metrics"
  /\ outputs' = outputs \cup {"price_metric", "vol_metric"}
  /\ pc' = "regime"
  /\ UNCHANGED <<cache, History, Inputs, requests, raised, Locals, chart,
                 table, errors>>

\* a classification that reports HIGH only when an earlier render exceeded
\* its threshold too
DetermineRegimeDebounced ==
  /\ pc = "regime"
  /\ IF Exceeds(current_vol, vol_threshold)
        /\ \E e \in seen : Exceeds(e.v, e.t)
     THEN /\ status' = HIGH
          /\ outputs' = outputs \cup {"badge_high"}
     ELSE /\ status' = STABLE
          /\ outputs' = outputs \cup {"badge_stable"}
  /\ seen' = seen \cup {[key |-> key, v |-> current_vol, t |-> vol_threshold,
                         badge |-> status']}
  /\ pc' = "chart"
  /\ UNCHANGED <<cache, netLog, failed, Inputs, requests, raised, prices,
                 vol_series, current_price, current_vol, chart, table, errors>>

\* Determine Regime
DetermineRegime ==
  /\ pc = "regime"
  /\ IF Exceeds(current_vol, vol_threshold)
     THEN /\ status' = HIGH
          /\ outputs' = outputs \cup {"badge_high"}
     ELSE /\ status' = STABLE
          /\ outputs' = outputs \cup {"badge_stable"}
  /\ seen' = seen \cup {[key |-> key, v |-> current_vol, t |-> vol_threshold,
                         badge |-> status']}
  /\ pc' = "chart"
  /\ UNCHANGED <<cache, netLog, failed, Inputs, requests, raised, prices,
                 vol_series, current_price, current_vol, chart, table, errors>>

\* 4. Visualization: any of the plotting calls may raise
Visualization ==
  /\ pc = "chart"
  /\ \/ /\ chart' = [priceDates |-> Dates(prices),
                     volDates |-> Dates(vol_series),
                     threshold |-> vol_threshold]
        /\ outputs' = outputs \cup {"chart"}
        /\ pc' = "table"
        /\ UNCHANGED raised
     \/ /\ Raise("chart")
        /\ UNCHANGED <<chart, outputs>>
  /\ UNCHANGED <<cache, History, Inputs, requests, Locals, table, errors>>

\* 5. Data View
DataView ==
  /\ pc = "table"
  /\ \/ /\ table' = tail(prices, TailRows)
        /\ outputs' = outputs \cup {"table"}
        /\ pc' = "done"
        /\ UNCHANGED raised
     \/ /\ Raise("table")
        /\ UNCHANGED <<table, outputs>>
  /\ UNCHANGED <<cache, History, Inputs, requests, Locals, chart, errors>>

\* except Exception
ExceptHandler ==
  /\ pc = "except"
  /\ errors' = Append(errors, ErrorMessage(ticker))
  /\ pc' = "done"
  /\ UNCHANGED <<cache, History, Inputs, requests, raised, Locals, outputs,
                 chart, table>>

Next ==
  \/ Rerun
  \/ FetchData
  \/ ComputeVolatility
  \/ LatestValues
  \/ DisplayMetrics
  \/ DetermineRegime
  \/ Visualization
  \/ DataView
  \/ ExceptHandler

Spec == Init /\ [][Next]_vars

\* ------------------------------------------- the classifier on every input
\* latest volatility values around every slider position
RegimeJumps ==
  {0} \cup {t * PctFactor + d : t \in AllThresholds, d \in {0 - 1, 0, 1}}

\* the state of a run that reached "Determine Regime": the key was rendered
\* once with the default threshold, then the slider was moved to t
InitRegime ==
  \E e \in RegimeJumps, t \in AllThresholds :
  \E s \in {MakeSeries(WindowSize, e)} :
  \E vs \in {volatility(s, WindowSize, RampUp)} :
    LET v == vs[Len(vs)].value * PctFactor
        k == <<DefaultTicker, DefaultPeriod>>
    IN /\ cache = (k :> s)
       /\ netLog = [q \in Keys |-> IF q = k THEN <<s>> ELSE <<>>]
       /\ failed = {}
       /\ seen = {[key |-> k, v |-> v, t |-> DefaultThreshold,
                   badge |-> IF Exceeds(v, DefaultThreshold)
                             THEN HIGH ELSE STABLE]}
       /\ renders = 2
       /\ ticker = DefaultTicker
       /\ period = DefaultPeriod
       /\ vol_threshold = t
       /\ pc = "regime"
       /\ requests = 0
       /\ raised = "none"
       /\ prices = s
       /\ vol_series = vs
       /\ current_price = s[Len(s)].price
       /\ current_vol = v
       /\ status = ""
       /\ outputs = {"price_metric", "vol_metric"}
       /\ chart = NoChart
       /\ table = <<>>
       /\ errors = <<>>

NextRegime ==
  \/ DetermineRegime
  \/ Visualization
  \/ DataView
  \/ ExceptHandler

SpecRegime == InitRegime /\ [][NextRegime]_vars

\* ----------------------------------------------------------------- claims
\* the run got past line 37 without an exception
VolComputed ==
  \/ pc \in {"latest", "metrics", "regime", "chart", "table"}
  \/ pc \in {"except", "done"} /\ raised \in {"none", "latest", "chart", "table"}

\* the run got past the regime badge
BadgeEmitted ==
  \/ pc \in {"chart", "table"}
  \/ pc \in {"except", "done"} /\ raised \in {"none", "chart", "table"}

Succeeded == pc = "done" /\ raised = "none"

\* C1: every finished render shows either all outputs and no error message,
\* or only the error message and none of the outputs.
C1_AllOrNothing ==
  pc = "done" =>
    \/ errors = <<>> /\ \E b \in Badges : outputs = FullOutputs(b)
    \/ errors = <<ErrorMessage(ticker)>> /\ outputs = {}

\* C2: for every latest volatility v and every threshold t in 10..50 the
\* badge is HIGH exactly when v > t and STABLE otherwise (v = t is STABLE),
\* and exactly one of the two badges is emitted.
C2_StrictThreshold ==
  BadgeEmitted =>
    /\ vol_threshold \in AllThresholds
    /\ ("badge_high" \in outputs) <=> (current_vol > vol_threshold * FixedScale)
    /\ ("badge_stable" \in outputs) <=> (current_vol <= vol_threshold * FixedScale)
    /\ (status = HIGH) <=> ("badge_high" \in outputs)
    /\ (status = STABLE) <=> ("badge_stable" \in outputs)

C2_Witness ==
  /\ Succeeded
  /\ vol_threshold = MaxThreshold
  /\ current_vol = vol_threshold * FixedScale
  /\ outputs = FullOutputs("badge_stable")

\* C3: once get_data has returned a series for a key, every later call with
\* that key returns that series without a network request; at most one
\* network request per key ever returned a series.
C3_Step ==
  /\ \A k \in Keys : Len(netLog'[k]) <= 1
  /\ \A k \in DOMAIN cache : netLog[k] = <<cache[k]>>
  /\ (pc = "fetch" /\ pc' # pc /\ key \in DOMAIN cache) =>
       /\ prices' = netLog[key][1]
       /\ requests' = requests
       /\ netLog' = netLog
       /\ pc' = "vol"

C3_CachedSeriesReused == [][C3_Step]_vars

C3_Witness ==
  /\ pc = "vol"
  /\ renders > 1
  /\ requests = 0
  /\ Len(prices) >= WindowSize

\* C4: a render whose fetch fails (get_data raises, or the provider has no
\* rows for the ticker) issues at most one network request and shows only the
\* error message with the entered ticker.
C4_FetchFailure ==
  (pc = "done" /\ (raised = "fetch" \/ Len(prices) = 0)) =>
    /\ requests <= 1
    /\ outputs = {}
    /\ errors = <<ErrorMessage(ticker)>>
    /\ errors[1][2] = ticker

C4_Witness ==
  /\ pc = "done"
  /\ raised = "fetch"
  /\ ticker = "ZZZINVALID"
  /\ requests = 1
  /\ errors = <<ErrorMessage("ZZZINVALID")>>

PriceDatesFrom(m) ==
  IF m > Len(prices) THEN <<>> ELSE SubSeq(Dates(prices), m, Len(prices))

C7_ShortSeries ==
  (pc = "done" /\ Len(prices) >= 1 /\ Len(prices) < WindowSize) =>
    /\ errors = <<ErrorMessage(ticker)>>
    /\ "vol_metric" \notin outputs
    /\ outputs \cap Badges = {}

C7_Witness ==
  /\ pc = "done"
  /\ Len(prices) = WindowSize - 1
  /\ raised = "latest"
  /\ errors = <<ErrorMessage(ticker)>>

\* C8: the badge is a function of the render's latest volatility and
\* threshold only: two renders with the same volatility and threshold show
\* the same badge, whatever the earlier renders were.
C8_NoMemory ==
  \A a \in seen, b \in seen : (a.v = b.v /\ a.t = b.t) => a.badge = b.badge

C8_Witness ==
  \E a \in seen, b \in seen :
    /\ a.key # b.key
    /\ a.v = b.v
    /\ a.t = b.t
    /\ a.badge = HIGH

\* an earlier render classified this key under another threshold
ThresholdMoved == \E e \in seen : e.key = key /\ e.t # vol_threshold

C9_ThresholdOnly ==
  (pc # "fetch" /\ ThresholdMoved) =>
    /\ requests = 0
    /\ raised # "fetch"
    /\ prices = cache[key]
    /\ BadgeEmitted => \A e \in seen : e.key = key => e.v = current_vol

\* C9: a render only adds the cache entry of its own key, never replaces or
\* removes an entry; a render that differs from an earlier successful one
\* only in the threshold makes no network request and classifies the same
\* cached series.
C9_Step ==
  /\ \A k \in DOMAIN cache : k \in DOMAIN cache' /\ cache'[k] = cache[k]
  /\ (DOMAIN cache' \ DOMAIN cache) \subseteq {key}
  /\ C9_ThresholdOnly'

C9_CacheFrame == [][C9_Step]_vars

C9_Witness ==
  /\ Succeeded
  /\ requests = 0
  /\ \E e \in seen : e.key = key /\ e.t # vol_threshold /\ e.badge # status

\* C10: when get_data raises, nothing is stored and the cache is unchanged;
\* the next render of the key requests again, and a success is rendered
\* normally.
C10_Step ==
  /\ (pc = "fetch" /\ raised' = "fetch") =>
       /\ cache' = cache
       /\ key \notin DOMAIN cache'
  /\ (pc = "fetch" /\ pc' # pc /\ key \in failed /\ key \notin DOMAIN cache) =>
       requests' = requests + 1
  /\ (pc' = "done" /\ raised' = "none") =>
       /\ errors' = <<>>
       /\ \E b \in Badges : outputs' = FullOutputs(b)

C10_FailureNotCached == [][C10_Step]_vars

C10_Witness ==
  /\ Succeeded
  /\ key \in failed
  /\ requests = 1
  /\ errors = <<>>
  /\ \E b \in Badges : outputs = FullOutputs(b)
====
